---- MODULE Spec2Model ----
(***************************************************************************)
(* Verification model of the voice-agent-service core:                     *)
(*   - the signaling server (services/signaling, handleWebSocket): the     *)
(*     peer directory `peers` and the relay of signaling envelopes;        *)
(*   - the peer service's per-track audio loop (services/peer/main.go,     *)
(*     the goroutine started in OnTrack): decode, VAD, speech state        *)
(*     machine.                                                            *)
(* Spec is the signaling server, TrackSpec is one track's audio loop.      *)
(***************************************************************************)
EXTENDS Integers, Sequences, FiniteSets, TLC

VARIABLES
    \* ---- signaling server (services/signaling) ----
    pc,            \* per connection: position of its handleWebSocket goroutine
    cur,           \* per connection: the decoded msg map being handled
    peerID,        \* per connection: the local variable peerID
    peers,         \* the package-level map peers: id -> connection
    target,        \* per connection: targetConn of the WriteJSON in progress
    received,      \* per connection: envelopes written to it, as the client reads them
    crashed,       \* the Go runtime has thrown a fatal error (process gone)
    nread,         \* number of envelopes read so far by all loops
    exitBy,        \* per connection: why its loop ended
    writing,       \* per connection: the JSON object its WriteJSON in progress sends
    sent,          \* history: per connection, the JSON object it last read, as the client
                   \* sent it; kept after a WriteJSON of it that returned an error
    joinLog,       \* history: per id, the connections whose join took effect since the last delete
    left,          \* history: the ids deleted by a leave and not joined since
    dropped,       \* history: <<id, l>> when a signal to id found no entry, l telling
                   \* whether the id was in left then
    \* ---- one track's audio loop (services/peer/main.go) ----
    tpc,           \* position of the track goroutine
    inSpeech,      \* main.go:86
    silenceStreak, \* main.go:87
    frameNo,       \* number of RTP packets read so far
    events,        \* the log lines "Speech started" / "Speech ended", each with its frame
    lastSpeechAt,  \* history: frame number of the latest frame classified as speech
    nonSpeechRun,  \* history: frames classified non-speech since lastSpeechAt
    crossAt,       \* history: frame at which nonSpeechRun reached the threshold
    fed,           \* history: the frames fed so far, kept while a prefix of a scenario
    lastIter,      \* history: the latest iteration: how its frame fared and the
                   \* stages (Decode, Process, segmentation) it called
    \* ---- the peer service's negotiator (services/peer/main.go) ----
    ppc,           \* position of the main goroutine in main / handleOffer
    inbox,         \* JSON objects the relay has written to the peer's socket, unread
    msg,           \* the SignalMessage being handled
    outbox,        \* JSON objects the peer has written to its socket, in order
    sessions,      \* number of PeerConnections created so far
    remoteSet,     \* SetRemoteDescription has succeeded on the PeerConnection
    localSet,      \* SetLocalDescription has succeeded on the PeerConnection
    onICE,         \* the OnICECandidate handler is registered
    gathering,     \* state of the ICE gatherer of the PeerConnection
    discovered,    \* local candidates found by the gatherer so far
    cbq,           \* candidates whose handler call is due
    exitWhy,       \* why the process ended
    delivered,     \* history: the JSON objects delivered so far, in order
    applyCalls,    \* history: number of SetRemoteDescription calls
    missed,        \* history: candidates found while no handler was registered
    unsent,        \* history: candidates whose WriteJSON failed
    \* ---- the tracks of one session (services/peer/main.go, OnTrack) ----
    spos,          \* per track: position of its goroutine
    skind,         \* per track: isSpeech of the frame in hand
    sreg,          \* per track: the value of silenceStreak loaded by silenceStreak++
    sframes,       \* number of RTP packets read so far by all tracks
    tevents,       \* per track: the events its goroutine has logged
    own,           \* history: per track, the segmentation state its own frames alone give
    ownEvents      \* history: per track, the events its own frames alone give

relayVars == <<pc, cur, peerID, peers, target, received, crashed, nread, exitBy,
               writing, sent, joinLog, left, dropped>>
trackVars == <<tpc, inSpeech, silenceStreak, frameNo, events, lastSpeechAt,
               nonSpeechRun, crossAt, fed, lastIter>>
peerVars == <<ppc, inbox, msg, outbox, sessions, remoteSet, localSet, onICE,
              gathering, discovered, cbq, exitWhy, delivered, applyCalls,
              missed, unsent>>
sessVars == <<spos, skind, sreg, sframes, tevents, own, ownEvents>>
vars == <<relayVars, trackVars, peerVars, sessVars>>

(***************************************************************************)
(* Bounds                                                                  *)
(***************************************************************************)
MaxFrames == 24
MaxMsgs == 4
MaxDeliver == 3
MaxSessFrames == 11

(***************************************************************************)
(* The track's audio loop                                                  *)
(***************************************************************************)
frameDuration == 20
SilenceThresholdMs == 200

Started(f) == [kind |-> "SpeechStarted", frame |-> f]
Ended(f) == [kind |-> "SpeechEnded", frame |-> f]

\* The speech state machine applied to one VAD decision.
SpeechStepNoGuard(inS, streak, isSpeech) ==
    IF isSpeech
    THEN [inSpeech |-> TRUE, silenceStreak |-> 0, emit |-> "SpeechStarted"]
    ELSE IF (streak + 1) * frameDuration >= SilenceThresholdMs
         THEN [inSpeech |-> FALSE, silenceStreak |-> streak + 1, emit |-> "SpeechEnded"]
         ELSE [inSpeech |-> inS, silenceStreak |-> streak + 1, emit |-> "none"]

SpeechStepStrict(inS, streak, isSpeech) ==
    IF isSpeech
    THEN [inSpeech |-> TRUE, silenceStreak |-> 0,
          emit |-> IF inS THEN "none" ELSE "SpeechStarted"]
    ELSE IF inS /\ (streak + 1) * frameDuration > SilenceThresholdMs
         THEN [inSpeech |-> FALSE, silenceStreak |-> streak + 1, emit |-> "SpeechEnded"]
         ELSE [inSpeech |-> inS, silenceStreak |-> streak + 1, emit |-> "none"]

SpeechStepNoReset(inS, streak, isSpeech) ==
    IF isSpeech
    THEN [inSpeech |-> TRUE, silenceStreak |-> streak,
          emit |-> IF inS THEN "none" ELSE "SpeechStarted"]
    ELSE IF inS /\ (streak + 1) * frameDuration >= SilenceThresholdMs
         THEN [inSpeech |-> FALSE, silenceStreak |-> streak + 1, emit |-> "SpeechEnded"]
         ELSE [inSpeech |-> inS, silenceStreak |-> streak + 1, emit |-> "none"]

SpeechStepEndsAnyway(inS, streak, isSpeech) ==
    IF isSpeech
    THEN [inSpeech |-> TRUE, silenceStreak |-> 0,
          emit |-> IF inS THEN "none" ELSE "SpeechStarted"]
    ELSE IF (streak + 1) * frameDuration >= SilenceThresholdMs
         THEN [inSpeech |-> FALSE, silenceStreak |-> streak + 1, emit |-> "SpeechEnded"]
         ELSE [inSpeech |-> inS, silenceStreak |-> streak + 1, emit |-> "none"]

SpeechStep(inS, streak, isSpeech) ==
    IF isSpeech
    THEN [inSpeech |-> TRUE, silenceStreak |-> 0,
          emit |-> IF inS THEN "none" ELSE "SpeechStarted"]
    ELSE IF inS /\ (streak + 1) * frameDuration >= SilenceThresholdMs
         THEN [inSpeech |-> FALSE, silenceStreak |-> streak + 1, emit |-> "SpeechEnded"]
         ELSE [inSpeech |-> inS, silenceStreak |-> streak + 1, emit |-> "none"]

\* History only: the two inputs spelled out for the segmentation, and the
\* frames fed so far while they are a prefix of one of them.
ScenarioBoundary == [i \in 1..21 |-> IF i = 11 THEN "speech" ELSE "nonspeech"]
ScenarioHysteresis ==
    [i \in 1..23 |-> IF i \in (1..5) \cup (9..13) THEN "speech" ELSE "nonspeech"]
Scenarios == {ScenarioBoundary, ScenarioHysteresis}
Off == <<"off">>

IsPrefix(s, t) == Len(s) <= Len(t) /\ \A i \in 1..Len(s) : s[i] = t[i]

Feed(k) ==
    LET n == Append(fed, k)
    IN  IF fed # Off /\ \E s \in Scenarios : IsPrefix(n, s) THEN n ELSE Off

TrackInit ==
    /\ tpc = "reading"
    /\ inSpeech = FALSE
    /\ silenceStreak = 0
    /\ frameNo = 0
    /\ events = <<>>
    /\ lastSpeechAt = 0
    /\ nonSpeechRun = 0
    /\ crossAt = 0
    /\ fed = <<>>
    /\ lastIter = [kind |-> "none", invoked |-> {}]

\* An iteration as TrackClassified runs it, but taken from any of the
\* positions in from and counting adv packets read.
TrackClassifiedFrom(k, from, adv) ==
    /\ k \in {"speech", "nonspeech"}
    /\ tpc \in from
    /\ frameNo + adv <= MaxFrames
    /\ frameNo' = frameNo + adv
    /\ LET r == SpeechStep(inSpeech, silenceStreak, k = "speech")
       IN  /\ inSpeech' = r.inSpeech
           /\ silenceStreak' = r.silenceStreak
           /\ events' = IF r.emit = "none" THEN events
                        ELSE Append(events, [kind |-> r.emit, frame |-> frameNo + adv])
    /\ lastSpeechAt' = IF k = "speech" THEN frameNo + adv ELSE lastSpeechAt
    /\ nonSpeechRun' = IF k = "speech" THEN 0 ELSE nonSpeechRun + 1
    /\ fed' = Off
    /\ lastIter' = [kind |-> k, invoked |-> {"Decode", "Process", "segmentation"}]
    /\ tpc' = "reading"
    /\ UNCHANGED crossAt
    /\ UNCHANGED <<relayVars, peerVars, sessVars>>

\* The loop started again after its read failed.
TrackClassifiedRestarts(k) == TrackClassifiedFrom(k, {"reading", "stopped"}, 1)

\* A packet read and thrown away before the one that is decoded.
TrackClassifiedDropsFrame(k) == TrackClassifiedFrom(k, {"reading"}, 2)

\* One iteration of the loop whose packet decodes and classifies: k is the VAD decision.
TrackClassified(k) ==
    /\ k \in {"speech", "nonspeech"}
    /\ tpc = "reading"
    /\ frameNo < MaxFrames
    /\ frameNo' = frameNo + 1
    /\ LET r == SpeechStep(inSpeech, silenceStreak, k = "speech")
       IN  /\ inSpeech' = r.inSpeech
           /\ silenceStreak' = r.silenceStreak
           /\ events' = IF r.emit = "none" THEN events
                        ELSE Append(events, [kind |-> r.emit, frame |-> frameNo + 1])
    /\ lastSpeechAt' = IF k = "speech" THEN frameNo + 1 ELSE lastSpeechAt
    /\ nonSpeechRun' = IF k = "speech" THEN 0 ELSE nonSpeechRun + 1
    /\ crossAt' = IF k = "speech" THEN 0
                  ELSE IF crossAt = 0 /\ lastSpeechAt > 0
                          /\ (nonSpeechRun + 1) * frameDuration >= SilenceThresholdMs
                       THEN frameNo + 1
                       ELSE crossAt
    /\ fed' = Feed(k)
    /\ lastIter' = [kind |-> k, invoked |-> {"Decode", "Process", "segmentation"}]
    /\ UNCHANGED tpc
    /\ UNCHANGED <<relayVars, peerVars, sessVars>>

\* The stages an iteration calls before its error makes it continue.
StagesBefore(k) == IF k = "decodeErr" THEN {"Decode"} ELSE {"Decode", "Process"}

\* An iteration whose failure of kind asSilence is not skipped but stepped
\* through the segmentation as a non-speech frame.
TrackFailureAsSilence(k, asSilence) ==
    /\ k \in {"decodeErr", "vadErr"}
    /\ tpc = "reading"
    /\ frameNo < MaxFrames
    /\ frameNo' = frameNo + 1
    /\ fed' = Feed(k)
    /\ IF k = asSilence
       THEN LET r == SpeechStep(inSpeech, silenceStreak, FALSE)
            IN  /\ inSpeech' = r.inSpeech
                /\ silenceStreak' = r.silenceStreak
                /\ events' = IF r.emit = "none" THEN events
                             ELSE Append(events, [kind |-> r.emit, frame |-> frameNo + 1])
                /\ lastIter' = [kind |-> k,
                                invoked |-> StagesBefore(k) \cup {"segmentation"}]
       ELSE /\ lastIter' = [kind |-> k, invoked |-> StagesBefore(k)]
            /\ UNCHANGED <<inSpeech, silenceStreak, events>>
    /\ UNCHANGED <<tpc, lastSpeechAt, nonSpeechRun, crossAt>>
    /\ UNCHANGED <<relayVars, peerVars, sessVars>>

TrackSkippedDecodeAsSilence(k) == TrackFailureAsSilence(k, "decodeErr")

TrackSkippedVadAsSilence(k) == TrackFailureAsSilence(k, "vadErr")

\* One iteration whose packet fails to decode, or whose VAD call fails: continue.
TrackSkipped(k) ==
    /\ k \in {"decodeErr", "vadErr"}
    /\ tpc = "reading"
    /\ frameNo < MaxFrames
    /\ frameNo' = frameNo + 1
    /\ fed' = Feed(k)
    /\ lastIter' = [kind |-> k, invoked |-> StagesBefore(k)]
    /\ UNCHANGED <<tpc, inSpeech, silenceStreak, events, lastSpeechAt, nonSpeechRun, crossAt>>
    /\ UNCHANGED <<relayVars, peerVars, sessVars>>

\* The read failure closing the open utterance before the goroutine returns.
TrackReadErrorFlushes ==
    /\ tpc = "reading"
    /\ tpc' = "stopped"
    /\ inSpeech' = FALSE
    /\ events' = IF inSpeech THEN Append(events, Ended(frameNo)) ELSE events
    /\ UNCHANGED <<silenceStreak, frameNo, lastSpeechAt,
                   nonSpeechRun, crossAt, fed, lastIter>>
    /\ UNCHANGED <<relayVars, peerVars, sessVars>>

\* track.ReadRTP fails: the goroutine returns.
TrackReadError ==
    /\ tpc = "reading"
    /\ tpc' = "stopped"
    /\ UNCHANGED <<inSpeech, silenceStreak, frameNo, events, lastSpeechAt,
                   nonSpeechRun, crossAt, fed, lastIter>>
    /\ UNCHANGED <<relayVars, peerVars, sessVars>>

TrackNext ==
    \/ \E k \in {"speech", "nonspeech"} : TrackClassified(k)
    \/ \E k \in {"decodeErr", "vadErr"} : TrackSkipped(k)
    \/ TrackReadError

(***************************************************************************)
(* The signaling server                                                    *)
(***************************************************************************)
Conns == {"c1", "c2", "c3"}
Ids == {"A", "B"}
NoConn == "noconn"
NoId == ""
Absent == "absent"
Keys == {"type", "id", "to", "from", "data"}

\* The JSON objects a client may send (one per message), field by field.
Wire(t, i, to, f, d) == [type |-> t, id |-> i, to |-> to, from |-> f, data |-> d]
NoWire == Wire(Absent, Absent, Absent, Absent, Absent)
JoinWires == {Wire("join", i, Absent, Absent, Absent) : i \in Ids \cup {Absent}}
SignalWires == {Wire("signal", Absent, t, "A", "sdp") : t \in Ids \cup {Absent}}
LeaveWires == {Wire("leave", Absent, Absent, Absent, Absent)}
OtherWires == {Wire("ping", Absent, Absent, Absent, Absent)}
\* What a client reads when two writes to its connection ran into each other.
Garbled == Wire("garbled", Absent, Absent, Absent, Absent)

\* conn.ReadJSON(&msg): the object as a map holding the keys that are present.
Decode(w) == [k \in {x \in Keys : w[x] # Absent} |-> w[k]]

EncodeDropFrom(m) == [k \in Keys |-> IF k \in DOMAIN m \ {"from"} THEN m[k] ELSE Absent]

\* WriteJSON(msg): the map as a JSON object again.
Encode(m) == [k \in Keys |-> IF k \in DOMAIN m THEN m[k] ELSE Absent]
\* msg[k]: nil when the key is missing.
Get(m, k) == IF k \in DOMAIN m THEN m[k] ELSE Absent
\* v.(string) succeeds.
IsString(v) == v # Absent
NoMsg == Decode(NoWire)

MapPut(m, k, v) == [x \in DOMAIN m \cup {k} |-> IF x = k THEN v ELSE m[x]]
MapDelete(m, k) == [x \in DOMAIN m \ {k} |-> m[x]]

RelayInit ==
    /\ pc = [c \in Conns |-> "read"]
    /\ cur = [c \in Conns |-> NoMsg]
    /\ peerID = [c \in Conns |-> NoId]
    /\ peers = NoMsg
    /\ target = [c \in Conns |-> NoConn]
    /\ received = [c \in Conns |-> <<>>]
    /\ crashed = FALSE
    /\ nread = 0
    /\ exitBy = [c \in Conns |-> "none"]
    /\ writing = [c \in Conns |-> NoWire]
    /\ sent = [c \in Conns |-> NoWire]
    /\ joinLog = [i \in Ids |-> <<>>]
    /\ left = {}
    /\ dropped = {}

CanRead(c) == ~crashed /\ pc[c] = "read" /\ nread < MaxMsgs

\* ReadJSON returns a join, signal or leave whose required field is a string:
\* the loop enters the switch case and reaches the access to peers.
RecvRouted(c, w) ==
    /\ CanRead(c)
    /\ \/ w.type = "join" /\ IsString(Get(Decode(w), "id"))
       \/ w.type = "signal" /\ IsString(Get(Decode(w), "to"))
       \/ w.type = "leave"
    /\ pc' = [pc EXCEPT ![c] = "dir"]
    /\ cur' = [cur EXCEPT ![c] = Decode(w)]
    /\ sent' = [sent EXCEPT ![c] = w]
    /\ nread' = nread + 1
    /\ UNCHANGED <<peerID, peers, target, received, crashed, exitBy, writing,
                   joinLog, left, dropped, trackVars, peerVars, sessVars>>

RecvMalformedFatal(c, w) ==
    /\ CanRead(c)
    /\ \/ w.type = "join" /\ ~IsString(Get(Decode(w), "id"))
       \/ w.type = "signal" /\ ~IsString(Get(Decode(w), "to"))
    /\ pc' = [pc EXCEPT ![c] = "closed"]
    /\ exitBy' = [exitBy EXCEPT ![c] = "panic"]
    /\ sent' = [sent EXCEPT ![c] = w]
    /\ crashed' = TRUE
    /\ nread' = nread + 1
    /\ UNCHANGED <<cur, peerID, peers, target, received, writing,
                   joinLog, left, dropped, trackVars, peerVars, sessVars>>

\* msg["id"].(string) or msg["to"].(string) panics: the deferred conn.Close()
\* runs and net/http recovers the panic of this connection's goroutine.
RecvMalformed(c, w) ==
    /\ CanRead(c)
    /\ \/ w.type = "join" /\ ~IsString(Get(Decode(w), "id"))
       \/ w.type = "signal" /\ ~IsString(Get(Decode(w), "to"))
    /\ pc' = [pc EXCEPT ![c] = "closed"]
    /\ exitBy' = [exitBy EXCEPT ![c] = "panic"]
    /\ sent' = [sent EXCEPT ![c] = w]
    /\ nread' = nread + 1
    /\ UNCHANGED <<cur, peerID, peers, target, received, crashed, writing,
                   joinLog, left, dropped, trackVars, peerVars, sessVars>>

\* A type no case matches: the loop reads again.
RecvOther(c, w) ==
    /\ CanRead(c)
    /\ w.type \notin {"join", "signal", "leave"}
    /\ nread' = nread + 1
    /\ UNCHANGED <<pc, cur, peerID, peers, target, received, crashed, exitBy, writing,
                   sent, joinLog, left, dropped, trackVars, peerVars, sessVars>>

\* ReadJSON fails (read error or close by the client): break, then conn.Close().
ReadError(c) ==
    /\ ~crashed
    /\ pc[c] = "read"
    /\ pc' = [pc EXCEPT ![c] = "closed"]
    /\ exitBy' = [exitBy EXCEPT ![c] = "readerr"]
    /\ UNCHANGED <<cur, peerID, peers, target, received, crashed, nread, writing,
                   sent, joinLog, left, dropped, trackVars, peerVars, sessVars>>

JoinKeepFirst(c) ==
    /\ ~crashed
    /\ pc[c] = "dir"
    /\ Get(cur[c], "type") = "join"
    /\ LET id == cur[c]["id"]
       IN  /\ peerID' = [peerID EXCEPT ![c] = id]
           /\ peers' = IF id \in DOMAIN peers THEN peers ELSE MapPut(peers, id, c)
           /\ joinLog' = [joinLog EXCEPT ![id] = Append(@, c)]
           /\ left' = left \ {id}
    /\ pc' = [pc EXCEPT ![c] = "read"]
    /\ cur' = [cur EXCEPT ![c] = NoMsg]
    /\ sent' = [sent EXCEPT ![c] = NoWire]
    /\ UNCHANGED <<target, received, crashed, nread, exitBy, writing, dropped, trackVars, peerVars, sessVars>>

\* case "join": peerID = id; peers[peerID] = conn.
Join(c) ==
    /\ ~crashed
    /\ pc[c] = "dir"
    /\ Get(cur[c], "type") = "join"
    /\ LET id == cur[c]["id"]
       IN  /\ peerID' = [peerID EXCEPT ![c] = id]
           /\ peers' = MapPut(peers, id, c)
           /\ joinLog' = [joinLog EXCEPT ![id] = Append(@, c)]
           /\ left' = left \ {id}
    /\ pc' = [pc EXCEPT ![c] = "read"]
    /\ cur' = [cur EXCEPT ![c] = NoMsg]
    /\ sent' = [sent EXCEPT ![c] = NoWire]
    /\ UNCHANGED <<target, received, crashed, nread, exitBy, writing, dropped, trackVars, peerVars, sessVars>>

\* case "signal", target found: targetConn.WriteJSON(msg) starts.
SignalFound(c) ==
    /\ ~crashed
    /\ pc[c] = "dir"
    /\ Get(cur[c], "type") = "signal"
    /\ cur[c]["to"] \in DOMAIN peers
    /\ target' = [target EXCEPT ![c] = peers[cur[c]["to"]]]
    /\ writing' = [writing EXCEPT ![c] = Encode(cur[c])]
    /\ pc' = [pc EXCEPT ![c] = "write"]
    /\ UNCHANGED <<cur, peerID, peers, received, crashed, nread, exitBy, sent,
                   joinLog, left, dropped, trackVars, peerVars, sessVars>>

SignalDroppedWithError(c) ==
    /\ ~crashed
    /\ pc[c] = "dir"
    /\ Get(cur[c], "type") = "signal"
    /\ cur[c]["to"] \notin DOMAIN peers
    /\ dropped' = dropped \cup {<<cur[c]["to"], cur[c]["to"] \in left>>}
    /\ received' = [received EXCEPT ![c] = Append(@, Wire("error", Absent, Absent, Absent, Absent))]
    /\ pc' = [pc EXCEPT ![c] = "read"]
    /\ cur' = [cur EXCEPT ![c] = NoMsg]
    /\ sent' = [sent EXCEPT ![c] = NoWire]
    /\ UNCHANGED <<peerID, peers, target, crashed, nread, exitBy, writing,
                   joinLog, left, trackVars, peerVars, sessVars>>

\* case "signal", target not in peers: nothing is done, the loop reads again.
SignalDropped(c) ==
    /\ ~crashed
    /\ pc[c] = "dir"
    /\ Get(cur[c], "type") = "signal"
    /\ cur[c]["to"] \notin DOMAIN peers
    /\ dropped' = dropped \cup {<<cur[c]["to"], cur[c]["to"] \in left>>}
    /\ pc' = [pc EXCEPT ![c] = "read"]
    /\ cur' = [cur EXCEPT ![c] = NoMsg]
    /\ sent' = [sent EXCEPT ![c] = NoWire]
    /\ UNCHANGED <<peerID, peers, target, received, crashed, nread, exitBy, writing,
                   joinLog, left, trackVars, peerVars, sessVars>>

LeaveKeepsEntry(c) ==
    /\ ~crashed
    /\ pc[c] = "dir"
    /\ Get(cur[c], "type") = "leave"
    /\ left' = left \cup ({peerID[c]} \cap Ids)
    /\ pc' = [pc EXCEPT ![c] = "closed"]
    /\ exitBy' = [exitBy EXCEPT ![c] = "leave"]
    /\ cur' = [cur EXCEPT ![c] = NoMsg]
    /\ sent' = [sent EXCEPT ![c] = NoWire]
    /\ UNCHANGED <<peerID, peers, target, received, crashed, nread, writing, joinLog,
                   dropped, trackVars, peerVars, sessVars>>

\* case "leave": delete(peers, peerID); return (then the deferred conn.Close()).
Leave(c) ==
    /\ ~crashed
    /\ pc[c] = "dir"
    /\ Get(cur[c], "type") = "leave"
    /\ peers' = MapDelete(peers, peerID[c])
    /\ joinLog' = [i \in Ids |-> IF i = peerID[c] THEN <<>> ELSE joinLog[i]]
    /\ left' = left \cup ({peerID[c]} \cap Ids)
    /\ pc' = [pc EXCEPT ![c] = "closed"]
    /\ exitBy' = [exitBy EXCEPT ![c] = "leave"]
    /\ cur' = [cur EXCEPT ![c] = NoMsg]
    /\ sent' = [sent EXCEPT ![c] = NoWire]
    /\ UNCHANGED <<peerID, target, received, crashed, nread, writing, dropped, trackVars, peerVars, sessVars>>

\* Another goroutine is inside WriteJSON on the same connection.
Contended(c) == \E d \in Conns \ {c} : pc[d] = "write" /\ target[d] = target[c]

WriteReturnsEvicts(c, ok) ==
    /\ ~crashed
    /\ pc[c] = "write"
    /\ ok => pc[target[c]] # "closed"
    /\ received' = IF ok
                   THEN [received EXCEPT ![target[c]] = Append(@, writing[c])]
                   ELSE received
    /\ peers' = IF ok THEN peers ELSE MapDelete(peers, cur[c]["to"])
    /\ pc' = [pc EXCEPT ![c] = "read"]
    /\ cur' = [cur EXCEPT ![c] = NoMsg]
    /\ sent' = IF ok THEN [sent EXCEPT ![c] = NoWire] ELSE sent
    /\ target' = [target EXCEPT ![c] = NoConn]
    /\ writing' = [writing EXCEPT ![c] = NoWire]
    /\ UNCHANGED <<peerID, crashed, nread, exitBy, joinLog, left, dropped, trackVars, peerVars, sessVars>>

\* targetConn.WriteJSON(msg) returns: nil when the envelope went out, an error
\* (only logged) otherwise; a connection the server has closed only gives errors.
WriteReturns(c, ok) ==
    /\ ~crashed
    /\ pc[c] = "write"
    /\ ok => pc[target[c]] # "closed"
    /\ received' = IF ok
                   THEN [received EXCEPT ![target[c]] = Append(@, writing[c])]
                   ELSE received
    /\ pc' = [pc EXCEPT ![c] = "read"]
    /\ cur' = [cur EXCEPT ![c] = NoMsg]
    /\ sent' = IF ok THEN [sent EXCEPT ![c] = NoWire] ELSE sent
    /\ target' = [target EXCEPT ![c] = NoConn]
    /\ writing' = [writing EXCEPT ![c] = NoWire]
    /\ UNCHANGED <<peerID, peers, crashed, nread, exitBy, joinLog, left, dropped, trackVars, peerVars, sessVars>>

\* Two goroutines inside WriteJSON on one connection share its write buffer:
\* the call may return nil with the frame on the wire garbled.
WriteGarbles(c) ==
    /\ ~crashed
    /\ pc[c] = "write"
    /\ Contended(c)
    /\ pc[target[c]] # "closed"
    /\ received' = [received EXCEPT ![target[c]] = Append(@, Garbled)]
    /\ pc' = [pc EXCEPT ![c] = "read"]
    /\ cur' = [cur EXCEPT ![c] = NoMsg]
    /\ sent' = [sent EXCEPT ![c] = NoWire]
    /\ target' = [target EXCEPT ![c] = NoConn]
    /\ writing' = [writing EXCEPT ![c] = NoWire]
    /\ UNCHANGED <<peerID, peers, crashed, nread, exitBy, joinLog, left, dropped, trackVars, peerVars, sessVars>>

\* ... or the websocket library detects it and panics in one of them
\* ("concurrent write to websocket connection"): that handler's goroutine ends.
WritePanics(c) ==
    /\ ~crashed
    /\ pc[c] = "write"
    /\ Contended(c)
    /\ pc' = [pc EXCEPT ![c] = "closed"]
    /\ exitBy' = [exitBy EXCEPT ![c] = "panic"]
    /\ cur' = [cur EXCEPT ![c] = NoMsg]
    /\ sent' = [sent EXCEPT ![c] = NoWire]
    /\ target' = [target EXCEPT ![c] = NoConn]
    /\ writing' = [writing EXCEPT ![c] = NoWire]
    /\ UNCHANGED <<peerID, peers, received, crashed, nread, joinLog, left, dropped, trackVars, peerVars, sessVars>>

IsMapWrite(c) == Get(cur[c], "type") \in {"join", "leave"}

\* peers is accessed by two goroutines at once, one of them writing: the Go
\* runtime may throw "concurrent map writes" / "concurrent map read and map
\* write", which ends the process.
MapRaceFatal ==
    /\ ~crashed
    /\ \E c \in Conns, d \in Conns :
          c # d /\ pc[c] = "dir" /\ pc[d] = "dir" /\ IsMapWrite(c)
    /\ crashed' = TRUE
    /\ UNCHANGED <<pc, cur, peerID, peers, target, received, nread, exitBy, writing,
                   sent, joinLog, left, dropped, trackVars, peerVars, sessVars>>

RelayNext ==
    \/ \E c \in Conns, w \in JoinWires \cup SignalWires \cup LeaveWires : RecvRouted(c, w)
    \/ \E c \in Conns, w \in JoinWires \cup SignalWires : RecvMalformed(c, w)
    \/ \E c \in Conns, w \in OtherWires : RecvOther(c, w)
    \/ \E c \in Conns : ReadError(c)
    \/ \E c \in Conns : Join(c)
    \/ \E c \in Conns : SignalFound(c)
    \/ \E c \in Conns : SignalDropped(c)
    \/ \E c \in Conns : Leave(c)
    \/ \E c \in Conns, ok \in BOOLEAN : WriteReturns(c, ok)
    \/ \E c \in Conns : WriteGarbles(c)
    \/ \E c \in Conns : WritePanics(c)
    \/ MapRaceFatal

(***************************************************************************)
(* The peer service's negotiator (main and handleOffer)                    *)
(***************************************************************************)
ownPeerID == "backend-peer-abc"
Initiator == "iphone"
Candidates == {"k1", "k2"}

\* A JSON object on the peer's socket, field by field; sdp and candidate are
\* data["sdp"] and data["candidate"], Absent when data lacks the key.
PWire(t, to, f, i, sdp, cand) ==
    [type |-> t, to |-> to, from |-> f, id |-> i, sdp |-> sdp, candidate |-> cand]

OfferWire(f, sdp) == PWire("signal", ownPeerID, f, Absent, sdp, Absent)
CandidateWire(f, cand) == PWire("signal", ownPeerID, f, Absent, Absent, cand)

\* What the relay may deliver to the peer: offers that apply or not, with or
\* without a from, a remote candidate, and an object of another type.
PeerWires ==
    {OfferWire(Initiator, "offer-ok"), OfferWire(Initiator, "offer-bad"),
     OfferWire(Absent, "offer-ok"), CandidateWire(Initiator, "rc1"),
     PWire("joined", Absent, Absent, Absent, Absent, Absent)}

\* type SignalMessage, with the zero value "" of a string field.
SignalMessage(t, to, f, i, sdp, cand) ==
    [Type |-> t, To |-> to, From |-> f, ID |-> i,
     Data |-> [sdp |-> sdp, candidate |-> cand]]
NoSignalMessage == SignalMessage("", "", "", "", Absent, Absent)

\* ws.ReadJSON(&msg): a missing key leaves the field at its zero value.
Unmarshal(w) ==
    LET str(v) == IF v = Absent THEN "" ELSE v
    IN  SignalMessage(str(w.type), str(w.to), str(w.from), str(w.id),
                      w.sdp, w.candidate)

\* ws.WriteJSON(m): to, from and id are omitempty, so "" leaves the key out.
Marshal(m) ==
    LET opt(v) == IF v = "" THEN Absent ELSE v
    IN  PWire(m.Type, opt(m.To), opt(m.From), opt(m.ID),
              m.Data.sdp, m.Data.candidate)

\* Whether SetRemoteDescription accepts the description.
Applies(sdp) == sdp = "offer-ok"
\* The SDP of the answer CreateAnswer makes for the offer applied.
AnswerSDP == "answer"

PeerInit ==
    /\ ppc = "join"
    /\ inbox = <<>>
    /\ msg = NoSignalMessage
    /\ outbox = <<>>
    /\ sessions = 0
    /\ remoteSet = FALSE
    /\ localSet = FALSE
    /\ onICE = FALSE
    /\ gathering = "new"
    /\ discovered = {}
    /\ cbq = <<>>
    /\ exitWhy = "none"
    /\ delivered = <<>>
    /\ applyCalls = 0
    /\ missed = {}
    /\ unsent = {}

\* The process ends (log.Fatal, an unrecovered panic, or main returning).
Exit(why) == ppc' = "exited" /\ exitWhy' = why

\* main: ws.WriteJSON(joinMsg), log.Fatal on error.
PeerJoin(ok) ==
    /\ ppc = "join"
    /\ IF ok
       THEN /\ outbox' = Append(outbox,
                            Marshal(SignalMessage("join", "", "", ownPeerID, Absent, Absent)))
            /\ ppc' = "read"
            /\ UNCHANGED exitWhy
       ELSE Exit("join") /\ UNCHANGED outbox
    /\ UNCHANGED <<inbox, msg, sessions, remoteSet, localSet, onICE, gathering,
                   discovered, cbq, delivered, applyCalls, missed, unsent>>
    /\ UNCHANGED <<relayVars, trackVars, sessVars>>

\* The relay writes w to the peer's socket.
PeerDeliver(w) ==
    /\ ppc \notin {"join", "exited"}
    /\ Len(delivered) < MaxDeliver
    /\ inbox' = Append(inbox, w)
    /\ delivered' = Append(delivered, w)
    /\ UNCHANGED <<ppc, msg, outbox, sessions, remoteSet, localSet, onICE, gathering,
                   discovered, cbq, exitWhy, applyCalls, missed, unsent>>
    /\ UNCHANGED <<relayVars, trackVars, sessVars>>

\* main: ReadJSON returns the next object; a signal is handed to handleOffer,
\* anything else is dropped and the loop reads again.
PeerRead ==
    /\ ppc = "read"
    /\ inbox # <<>>
    /\ msg' = Unmarshal(Head(inbox))
    /\ inbox' = Tail(inbox)
    /\ ppc' = IF msg'.Type = "signal" THEN "unpack" ELSE "read"
    /\ UNCHANGED <<outbox, sessions, remoteSet, localSet, onICE, gathering,
                   discovered, cbq, exitWhy, delivered, applyCalls, missed, unsent>>
    /\ UNCHANGED <<relayVars, trackVars, sessVars>>

\* main: ReadJSON fails, main returns and the process ends.
PeerReadError ==
    /\ ppc = "read"
    /\ Exit("read")
    /\ UNCHANGED <<inbox, msg, outbox, sessions, remoteSet, localSet, onICE, gathering,
                   discovered, cbq, delivered, applyCalls, missed, unsent>>
    /\ UNCHANGED <<relayVars, trackVars, sessVars>>

\* handleOffer: msg.Data.(map[string]interface{}) and data["sdp"].(string);
\* either assertion panics in the main goroutine when there is no string sdp.
Unpack ==
    /\ ppc = "unpack"
    /\ IF IsString(msg.Data.sdp)
       THEN ppc' = "new" /\ UNCHANGED exitWhy
       ELSE Exit("panic")
    /\ UNCHANGED <<inbox, msg, outbox, sessions, remoteSet, localSet, onICE, gathering,
                   discovered, cbq, delivered, applyCalls, missed, unsent>>
    /\ UNCHANGED <<relayVars, trackVars, sessVars>>

\* handleOffer: NewPeerConnection, opus.NewDecoder, webrtcvad.New, OnTrack;
\* log.Fatal when one of the constructors fails.
NewSession(ok) ==
    /\ ppc = "new"
    /\ IF ok
       THEN /\ sessions' = sessions + 1
            /\ remoteSet' = FALSE
            /\ localSet' = FALSE
            /\ onICE' = FALSE
            /\ gathering' = "new"
            /\ ppc' = "setRemote"
            /\ UNCHANGED exitWhy
       ELSE /\ Exit("setup")
            /\ UNCHANGED <<sessions, remoteSet, localSet, onICE, gathering>>
    /\ UNCHANGED <<inbox, msg, outbox, discovered, cbq, delivered, applyCalls,
                   missed, unsent>>
    /\ UNCHANGED <<relayVars, trackVars, sessVars>>

SetRemoteDescriptionUnchecked ==
    /\ ppc = "setRemote"
    /\ applyCalls' = applyCalls + 1
    /\ remoteSet' = Applies(msg.Data.sdp)
    /\ ppc' = "createAnswer"
    /\ UNCHANGED <<inbox, msg, outbox, sessions, localSet, onICE, gathering,
                   discovered, cbq, exitWhy, delivered, missed, unsent>>
    /\ UNCHANGED <<relayVars, trackVars, sessVars>>

\* handleOffer: peerConnection.SetRemoteDescription(offer), log.Fatal on error.
SetRemoteDescription ==
    /\ ppc = "setRemote"
    /\ applyCalls' = applyCalls + 1
    /\ IF Applies(msg.Data.sdp)
       THEN remoteSet' = TRUE /\ ppc' = "createAnswer" /\ UNCHANGED exitWhy
       ELSE Exit("offer") /\ UNCHANGED remoteSet
    /\ UNCHANGED <<inbox, msg, outbox, sessions, localSet, onICE, gathering,
                   discovered, cbq, delivered, missed, unsent>>
    /\ UNCHANGED <<relayVars, trackVars, sessVars>>

\* handleOffer: peerConnection.CreateAnswer(nil), log.Fatal on error.
CreateAnswer(ok) ==
    /\ ppc = "createAnswer"
    /\ IF ok THEN ppc' = "setLocal" /\ UNCHANGED exitWhy ELSE Exit("answer")
    /\ UNCHANGED <<inbox, msg, outbox, sessions, remoteSet, localSet, onICE, gathering,
                   discovered, cbq, delivered, applyCalls, missed, unsent>>
    /\ UNCHANGED <<relayVars, trackVars, sessVars>>

SetLocalDescriptionWithHandler(ok) ==
    /\ ppc = "setLocal"
    /\ IF ok
       THEN /\ localSet' = TRUE
            /\ onICE' = TRUE
            /\ gathering' = "gathering"
            /\ ppc' = "sendAnswer"
            /\ UNCHANGED exitWhy
       ELSE Exit("local") /\ UNCHANGED <<localSet, onICE, gathering>>
    /\ UNCHANGED <<inbox, msg, outbox, sessions, remoteSet,
                   discovered, cbq, delivered, applyCalls, missed, unsent>>
    /\ UNCHANGED <<relayVars, trackVars, sessVars>>

\* handleOffer: peerConnection.SetLocalDescription(answer), which starts the
\* gathering of local candidates; log.Fatal on error.
SetLocalDescription(ok) ==
    /\ ppc = "setLocal"
    /\ IF ok
       THEN /\ localSet' = TRUE
            /\ gathering' = "gathering"
            /\ ppc' = "sendAnswer"
            /\ UNCHANGED exitWhy
       ELSE Exit("local") /\ UNCHANGED <<localSet, gathering>>
    /\ UNCHANGED <<inbox, msg, outbox, sessions, remoteSet, onICE,
                   discovered, cbq, delivered, applyCalls, missed, unsent>>
    /\ UNCHANGED <<relayVars, trackVars, sessVars>>

\* The answer envelope handleOffer builds.
AnswerMsg(to) == SignalMessage("signal", to, ownPeerID, "", AnswerSDP, Absent)
\* The candidate envelope the OnICECandidate handler builds.
IceMsg(to, c) == SignalMessage("signal", to, ownPeerID, "", Absent, c)

SendAnswerBack(ok) ==
    /\ ppc = "sendAnswer"
    /\ IF ok
       THEN /\ outbox' = Append(outbox, Marshal(AnswerMsg(msg.To)))
            /\ ppc' = "onICE"
            /\ UNCHANGED exitWhy
       ELSE Exit("send") /\ UNCHANGED outbox
    /\ UNCHANGED <<inbox, msg, sessions, remoteSet, localSet, onICE, gathering,
                   discovered, cbq, delivered, applyCalls, missed, unsent>>
    /\ UNCHANGED <<relayVars, trackVars, sessVars>>

\* handleOffer: ws.WriteJSON(answerMsg), log.Fatal on error.
SendAnswer(ok) ==
    /\ ppc = "sendAnswer"
    /\ IF ok
       THEN /\ outbox' = Append(outbox, Marshal(AnswerMsg(msg.From)))
            /\ ppc' = "onICE"
            /\ UNCHANGED exitWhy
       ELSE Exit("send") /\ UNCHANGED outbox
    /\ UNCHANGED <<inbox, msg, sessions, remoteSet, localSet, onICE, gathering,
                   discovered, cbq, delivered, applyCalls, missed, unsent>>
    /\ UNCHANGED <<relayVars, trackVars, sessVars>>

\* handleOffer: peerConnection.OnICECandidate(...), then select {}.
RegisterICE ==
    /\ ppc = "onICE"
    /\ onICE' = TRUE
    /\ ppc' = "blocked"
    /\ UNCHANGED <<inbox, msg, outbox, sessions, remoteSet, localSet, gathering,
                   discovered, cbq, exitWhy, delivered, applyCalls, missed, unsent>>
    /\ UNCHANGED <<relayVars, trackVars, sessVars>>

\* The gatherer finds local candidate c: the handler is called if there is one.
Discover(c) ==
    /\ ppc # "exited"
    /\ gathering = "gathering"
    /\ c \notin discovered
    /\ discovered' = discovered \cup {c}
    /\ IF onICE
       THEN cbq' = Append(cbq, c) /\ UNCHANGED missed
       ELSE missed' = missed \cup {c} /\ UNCHANGED cbq
    /\ UNCHANGED <<ppc, inbox, msg, outbox, sessions, remoteSet, localSet, onICE,
                   gathering, exitWhy, delivered, applyCalls, unsent>>
    /\ UNCHANGED <<relayVars, trackVars, sessVars>>

\* The handler called with a candidate: ws.WriteJSON(iceMsg), its error dropped.
IceCallback(ok) ==
    /\ ppc # "exited"
    /\ cbq # <<>>
    /\ cbq' = Tail(cbq)
    /\ IF ok
       THEN outbox' = Append(outbox, Marshal(IceMsg(msg.From, Head(cbq)))) /\ UNCHANGED unsent
       ELSE unsent' = unsent \cup {Head(cbq)} /\ UNCHANGED outbox
    /\ UNCHANGED <<ppc, inbox, msg, sessions, remoteSet, localSet, onICE,
                   gathering, discovered, exitWhy, delivered, applyCalls, missed>>
    /\ UNCHANGED <<relayVars, trackVars, sessVars>>

\* Gathering ends: the handler, if any, is called with nil and returns.
GatheringComplete ==
    /\ ppc # "exited"
    /\ gathering = "gathering"
    /\ gathering' = "complete"
    /\ UNCHANGED <<ppc, inbox, msg, outbox, sessions, remoteSet, localSet, onICE,
                   discovered, cbq, exitWhy, delivered, applyCalls, missed, unsent>>
    /\ UNCHANGED <<relayVars, trackVars, sessVars>>

PeerNext ==
    \/ \E ok \in BOOLEAN : PeerJoin(ok)
    \/ \E w \in PeerWires : PeerDeliver(w)
    \/ PeerRead
    \/ PeerReadError
    \/ Unpack
    \/ \E ok \in BOOLEAN : NewSession(ok)
    \/ SetRemoteDescription
    \/ \E ok \in BOOLEAN : CreateAnswer(ok)
    \/ \E ok \in BOOLEAN : SetLocalDescription(ok)
    \/ \E ok \in BOOLEAN : SendAnswer(ok)
    \/ RegisterICE
    \/ \E c \in Candidates : Discover(c)
    \/ \E ok \in BOOLEAN : IceCallback(ok)
    \/ GatheringComplete

(***************************************************************************)
(* One session with several remote tracks: every OnTrack call starts a     *)
(* goroutine over the same dec, vad, inSpeech and silenceStreak of the     *)
(* enclosing handleOffer call, with no synchronisation between them, so    *)
(* the steps of one iteration interleave with those of the other track.    *)
(***************************************************************************)
Tracks == {"t1", "t2"}

SessInit ==
    /\ spos = [t \in Tracks |-> "none"]
    /\ skind = [t \in Tracks |-> "none"]
    /\ sreg = [t \in Tracks |-> 0]
    /\ sframes = 0
    /\ tevents = [t \in Tracks |-> <<>>]
    /\ own = [t \in Tracks |-> [inSpeech |-> FALSE, silenceStreak |-> 0]]
    /\ ownEvents = [t \in Tracks |-> <<>>]

SessTrackVars == <<tpc, frameNo, events, lastSpeechAt, nonSpeechRun, crossAt, fed, lastIter>>

\* OnTrack: the goroutine of track t starts.
OnTrack(t) ==
    /\ spos[t] = "none"
    /\ spos' = [spos EXCEPT ![t] = "reading"]
    /\ UNCHANGED <<skind, sreg, sframes, tevents, own, ownEvents, inSpeech, silenceStreak>>
    /\ UNCHANGED <<SessTrackVars, relayVars, peerVars>>

\* Track t reads, decodes and classifies a frame as k, and runs the first
\* statement of its branch: silenceStreak = 0, or the load of silenceStreak++.
SessBegin(t, k) ==
    /\ k \in {"speech", "nonspeech"}
    /\ spos[t] = "reading"
    /\ sframes < MaxSessFrames
    /\ sframes' = sframes + 1
    /\ skind' = [skind EXCEPT ![t] = k]
    /\ IF k = "speech"
       THEN /\ silenceStreak' = 0
            /\ spos' = [spos EXCEPT ![t] = "test"]
            /\ UNCHANGED sreg
       ELSE /\ sreg' = [sreg EXCEPT ![t] = silenceStreak]
            /\ spos' = [spos EXCEPT ![t] = "inc"]
            /\ UNCHANGED silenceStreak
    /\ LET r == SpeechStep(own[t].inSpeech, own[t].silenceStreak, k = "speech")
       IN  /\ own' = [own EXCEPT ![t] = [inSpeech |-> r.inSpeech,
                                         silenceStreak |-> r.silenceStreak]]
           /\ ownEvents' = IF r.emit = "none" THEN ownEvents
                           ELSE [ownEvents EXCEPT ![t] = Append(@, r.emit)]
    /\ UNCHANGED <<tevents, inSpeech>>
    /\ UNCHANGED <<SessTrackVars, relayVars, peerVars>>

\* The store of silenceStreak++.
SessInc(t) ==
    /\ spos[t] = "inc"
    /\ silenceStreak' = sreg[t] + 1
    /\ spos' = [spos EXCEPT ![t] = "test"]
    /\ UNCHANGED <<skind, sreg, sframes, tevents, own, ownEvents, inSpeech>>
    /\ UNCHANGED <<SessTrackVars, relayVars, peerVars>>

\* The test of the branch: !inSpeech, or inSpeech && silenceStreak*frameDuration >= 200.
SessTest(t) ==
    /\ spos[t] = "test"
    /\ LET fire == IF skind[t] = "speech" THEN ~inSpeech
                   ELSE inSpeech /\ silenceStreak * frameDuration >= SilenceThresholdMs
       IN  spos' = [spos EXCEPT ![t] = IF fire THEN "fire" ELSE "reading"]
    /\ UNCHANGED <<skind, sreg, sframes, tevents, own, ownEvents, inSpeech, silenceStreak>>
    /\ UNCHANGED <<SessTrackVars, relayVars, peerVars>>

\* The body of the test: inSpeech is set and the event is logged.
SessFire(t) ==
    /\ spos[t] = "fire"
    /\ inSpeech' = (skind[t] = "speech")
    /\ tevents' = [tevents EXCEPT ![t] =
                      Append(@, IF skind[t] = "speech" THEN "SpeechStarted" ELSE "SpeechEnded")]
    /\ spos' = [spos EXCEPT ![t] = "reading"]
    /\ UNCHANGED <<skind, sreg, sframes, own, ownEvents, silenceStreak>>
    /\ UNCHANGED <<SessTrackVars, relayVars, peerVars>>

\* A frame of track t that fails to decode or to classify: continue.
SessSkipped(t) ==
    /\ spos[t] = "reading"
    /\ sframes < MaxSessFrames
    /\ sframes' = sframes + 1
    /\ UNCHANGED <<spos, skind, sreg, tevents, own, ownEvents, inSpeech, silenceStreak>>
    /\ UNCHANGED <<SessTrackVars, relayVars, peerVars>>

\* track.ReadRTP fails: the goroutine of track t returns.
SessReadError(t) ==
    /\ spos[t] = "reading"
    /\ spos' = [spos EXCEPT ![t] = "stopped"]
    /\ UNCHANGED <<skind, sreg, sframes, tevents, own, ownEvents, inSpeech, silenceStreak>>
    /\ UNCHANGED <<SessTrackVars, relayVars, peerVars>>

SessNext ==
    \/ \E t \in Tracks : OnTrack(t)
    \/ \E t \in Tracks, k \in {"speech", "nonspeech"} : SessBegin(t, k)
    \/ \E t \in Tracks : SessInc(t)
    \/ \E t \in Tracks : SessTest(t)
    \/ \E t \in Tracks : SessFire(t)
    \/ \E t \in Tracks : SessSkipped(t)
    \/ \E t \in Tracks : SessReadError(t)

(***************************************************************************)
(* Specifications                                                          *)
(***************************************************************************)
Init == RelayInit /\ TrackInit /\ PeerInit /\ SessInit

Spec == Init /\ [][RelayNext]_vars

TrackSpec == Init /\ [][TrackNext]_vars

PeerSpec == Init /\ [][PeerNext]_vars

SessionSpec == Init /\ [][SessNext]_vars

(***************************************************************************)
(* Properties of one track's audio loop (checked under TrackSpec)          *)
(***************************************************************************)
Last(q) == q[Len(q)]

\* C1: the events of one track's loop, whatever frames it is fed (speech,
\* non-speech, skipped), alternate SpeechStarted, SpeechEnded, SpeechStarted,
\* ... and begin with SpeechStarted.
EventsAlternate ==
    \A i \in 1..Len(events) :
        events[i].kind = IF i % 2 = 1 THEN "SpeechStarted" ELSE "SpeechEnded"

EventsAlternateSeen ==
    /\ Len(events) = 4
    /\ events[2].frame > events[1].frame + 10

EndedSinceLastSpeech ==
    {i \in 1..Len(events) : events[i].kind = "SpeechEnded" /\ events[i].frame > lastSpeechAt}

\* C2: with 20 ms frames and the 200 ms threshold, after the latest speech
\* frame and N consecutive non-speech frames, SpeechEnded has been emitted iff
\* N * 20 >= 200, it was emitted at the 10th of these frames, and only once
\* however many more follow; [false]*10, [true], [false]*10 gives
\* SpeechStarted at frame 11 and SpeechEnded at frame 21.
EndAtThresholdOnce ==
    /\ lastSpeechAt > 0 =>
          /\ (nonSpeechRun * 20 >= 200) <=> (EndedSinceLastSpeech # {})
          /\ (nonSpeechRun * 20 >= 200) <=> (crossAt > 0)
          /\ \A i \in EndedSinceLastSpeech : events[i].frame = crossAt
          /\ Cardinality(EndedSinceLastSpeech) <= 1
    /\ fed = ScenarioBoundary => events = <<Started(11), Ended(21)>>

EndAtThresholdOnceSeen ==
    /\ fed = ScenarioBoundary
    /\ events = <<Started(11), Ended(21)>>
    /\ nonSpeechRun = 10

\* A speech frame is processed in this step.
SpeechFrameStep == frameNo' = frameNo + 1 /\ lastSpeechAt' = frameNo'

\* C3: while Speaking, a run of fewer than 10 consecutive non-speech frames
\* emits no event, and neither does the speech frame that follows it: the
\* utterance is not split; frames 1-5 speech, 6-8 non-speech, 9-13 speech,
\* 14-23 non-speech give one SpeechStarted (frame 1) and one SpeechEnded (frame 23).
ShortGapKeepsUtterance ==
    /\ [](lastSpeechAt > 0 /\ nonSpeechRun < 10 =>
            /\ inSpeech
            /\ events # <<>>
            /\ Last(events).kind = "SpeechStarted"
            /\ Last(events).frame <= lastSpeechAt)
    /\ [][(lastSpeechAt > 0 /\ nonSpeechRun < 10 /\ SpeechFrameStep) =>
            events' = events /\ inSpeech']_vars
    /\ [](fed = ScenarioHysteresis => events = <<Started(1), Ended(23)>>)

ShortGapKeepsUtteranceSeen ==
    /\ fed = ScenarioHysteresis
    /\ events = <<Started(1), Ended(23)>>

(***************************************************************************)
(* Properties of the signaling server (checked under Spec)                 *)
(***************************************************************************)
\* Steps of connection c's loop, read off the state.
ForwardStep(c) == pc[c] = "dir" /\ pc'[c] = "write"
JoinStep(c) == pc[c] = "dir" /\ sent[c].type = "join" /\ pc'[c] # "dir"
LeaveStep(c) == pc[c] = "dir" /\ sent[c].type = "leave" /\ pc'[c] # "dir"
SignalStep(c) == pc[c] = "dir" /\ sent[c].type = "signal" /\ pc'[c] # "dir"
WriteReturnStep(c) == pc[c] = "write" /\ pc'[c] = "read"

\* C4: last registration wins. While the entry of an id stands, it maps to
\* the connection whose join for the id was handled last; a signal to the id
\* looked up from then on is written to that connection, and a connection is
\* handed an envelope only by a write that was addressed to it: an earlier
\* joiner of the id gets none of them.
LastRegistrationWins ==
    /\ [](\A id \in Ids : joinLog[id] # <<>> =>
            id \in DOMAIN peers /\ peers[id] = Last(joinLog[id]))
    /\ [][\A c \in Conns : ForwardStep(c) =>
            /\ joinLog[sent[c].to] # <<>>
            /\ target'[c] = Last(joinLog[sent[c].to])]_vars
    /\ [][\A x \in Conns : received'[x] # received[x] =>
            \E c \in Conns : WriteReturnStep(c) /\ target[c] = x]_vars

LastRegistrationWinsSeen ==
    /\ joinLog["A"] = <<"c1", "c2">>
    /\ received["c2"] = <<Wire("signal", Absent, "A", "A", "sdp")>>
    /\ received["c1"] = <<>>

\* C5: a signal whose `to` is not in the directory when it is looked up is
\* dropped: nothing is written or delivered to any connection, the sender gets
\* nothing and its loop goes back to reading, and the envelope is kept nowhere:
\* a later join delivers nothing.
UnroutableDropped ==
    /\ [][\A c \in Conns : (SignalStep(c) /\ sent[c].to \notin DOMAIN peers) =>
            /\ pc'[c] = "read"
            /\ cur'[c] = NoMsg
            /\ received' = received
            /\ writing' = writing
            /\ target' = target
            /\ peers' = peers
            /\ exitBy' = exitBy]_vars
    /\ [][\A c \in Conns : JoinStep(c) =>
            received' = received /\ writing' = writing /\ target' = target]_vars

UnroutableDroppedSeen ==
    /\ <<"A", FALSE>> \in dropped
    /\ joinLog["A"] # <<>>
    /\ \A x \in Conns : received[x] = <<>> /\ writing[x] = NoWire
    /\ \A x \in Conns : pc[x] = "read"

\* C6: a signal whose `to` is in the directory is forwarded once, as it was
\* sent (same type, from, to, data), to the connection registered for `to` at
\* the lookup and to no other: one WriteJSON of that object on that connection,
\* and what a write that ran alone delivers is that object, on that connection.
ForwardedVerbatimOnce ==
    /\ [][\A c \in Conns : ForwardStep(c) =>
            /\ sent[c].to \in DOMAIN peers
            /\ target'[c] = peers[sent[c].to]
            /\ writing'[c] = sent[c]
            /\ \A d \in Conns \ {c} : target'[d] = target[d] /\ writing'[d] = writing[d]
            /\ received' = received]_vars
    /\ [][\A c \in Conns : (SignalStep(c) /\ sent[c].to \in DOMAIN peers) =>
            ForwardStep(c)]_vars
    /\ [][\A c \in Conns : (pc[c] = "write" /\ pc'[c] = "write") =>
            target'[c] = target[c] /\ writing'[c] = writing[c]]_vars
    /\ [][\A c \in Conns : (pc'[c] = "write") => pc[c] \in {"dir", "write"}]_vars
    /\ [][\A c \in Conns : (WriteReturnStep(c) /\ ~Contended(c)) =>
            \/ received' = received
            \/ received' = [received EXCEPT ![target[c]] = Append(@, sent[c])]]_vars
    /\ [][\A x \in Conns : received'[x] # received[x] =>
            /\ \E c \in Conns : WriteReturnStep(c) /\ target[c] = x
            /\ Len(received'[x]) = Len(received[x]) + 1
            /\ \A y \in Conns \ {x} : received'[y] = received[y]]_vars

ForwardedVerbatimOnceSeen ==
    /\ "A" \in DOMAIN peers
    /\ peers["A"] = "c2"
    /\ received["c2"] = <<Wire("signal", Absent, "A", "A", "sdp")>>
    /\ received["c1"] = <<>>
    /\ received["c3"] = <<>>

\* C7: when the loop of a connection registered as P (its peerID) handles a
\* leave, the directory has no entry for P afterwards and no other entry is
\* touched, the loop ends and the connection is closed; until a join for P is
\* handled the directory has no entry for P and every signal to P is dropped.
LeaveRemoves ==
    /\ [][\A c \in Conns : LeaveStep(c) =>
            /\ peerID[c] \notin DOMAIN peers'
            /\ \A id \in DOMAIN peers \ {peerID[c]} :
                  id \in DOMAIN peers' /\ peers'[id] = peers[id]
            /\ pc'[c] = "closed"]_vars
    /\ [](\A id \in left : id \notin DOMAIN peers)
    /\ [][\A c \in Conns : (SignalStep(c) /\ sent[c].to \in left) =>
            pc'[c] = "read" /\ received' = received /\ writing' = writing]_vars

LeaveRemovesSeen ==
    /\ "A" \in left
    /\ <<"A", TRUE>> \in dropped
    /\ \E c \in Conns : peerID[c] = "A" /\ exitBy[c] = "leave" /\ pc[c] = "closed"

\* C8: when the loop of a registered connection ends on a read error or a
\* close by the client, its registration is removed: no entry of the directory
\* maps to that closed connection.
ImplicitLeaveOnReadError ==
    \A c \in Conns : exitBy[c] = "readerr" =>
        \A id \in DOMAIN peers : peers[id] # c

\* C9: the accesses to the directory exclude each other: no two loops are
\* inside an insert, lookup or delete at the same time.
DirectoryMutex == Cardinality({c \in Conns : pc[c] = "dir"}) <= 1

\* C10: no loop waits for a relay write: while the write of an envelope it
\* has handled is still in progress, the sender's loop is at its next read.
ReadNeverWaitsForDelivery ==
    \A c \in Conns : target[c] # NoConn => pc[c] = "read"

\* A join without a string id, or a signal without a string to.
Malformed(w) ==
    \/ w.type = "join" /\ w.id = Absent
    \/ w.type = "signal" /\ w.to = Absent

\* C11: a malformed envelope ends the loop of the connection it came from and
\* nothing else: every other loop stays where it is, the process lives, and
\* the directory is the same after it (no entry added, altered or removed).
MalformedEndsOnlyItsLoop ==
    [][\A c \in Conns : (pc[c] = "read" /\ Malformed(sent'[c])) =>
          /\ pc'[c] = "closed"
          /\ \A d \in Conns \ {c} : pc'[d] = pc[d] /\ cur'[d] = cur[d]
          /\ crashed' = crashed
          /\ peers' = peers
          /\ received' = received
          /\ writing' = writing]_vars

MalformedEndsOnlyItsLoopSeen ==
    /\ Malformed(sent["c1"]) /\ pc["c1"] = "closed"
    /\ ~crashed
    /\ "A" \in DOMAIN peers /\ peers["A"] = "c2"
    /\ received["c2"] # <<>>
    /\ pc["c2"] = "read" /\ pc["c3"] = "read"

\* The iteration just run handled a frame of kind k.
IterOf(k) == frameNo' = frameNo + 1 /\ lastIter'.kind = k

\* C18: a frame that fails to decode is skipped entirely: neither the
\* classifier nor the segmentation is called for it, inSpeech and
\* silenceStreak keep their values, no event is logged, and the loop is back
\* at reading the next frame.
DecodeFailureSkipsFrame ==
    [][IterOf("decodeErr") =>
          /\ lastIter'.invoked = {"Decode"}
          /\ inSpeech' = inSpeech
          /\ silenceStreak' = silenceStreak
          /\ events' = events
          /\ tpc' = "reading"]_vars

DecodeFailureSkipsFrameSeen ==
    /\ lastIter.kind = "decodeErr"
    /\ inSpeech
    /\ (silenceStreak + 1) * frameDuration >= SilenceThresholdMs
    /\ tpc = "reading"

\* C19 as stated: a frame whose classification fails steps the segmentation
\* with speech = false, so that while Speaking the silence run grows by one
\* and "Speech ended" is logged when the run thereby reaches the threshold.
VadFailureCountsAsSilence ==
    [][(IterOf("vadErr") /\ inSpeech) =>
          /\ silenceStreak' = silenceStreak + 1
          /\ IF (silenceStreak + 1) * frameDuration >= SilenceThresholdMs
             THEN ~inSpeech' /\ events' = Append(events, Ended(frameNo + 1))
             ELSE inSpeech' /\ events' = events]_vars

\* C19 as amended: a frame whose classification fails is skipped like one
\* that fails to decode: the segmentation is not stepped, inSpeech and
\* silenceStreak keep their values, no event is logged, and the loop is back
\* at reading the next frame.
VadFailureSkipsFrame ==
    [][IterOf("vadErr") =>
          /\ lastIter'.invoked = {"Decode", "Process"}
          /\ inSpeech' = inSpeech
          /\ silenceStreak' = silenceStreak
          /\ events' = events
          /\ tpc' = "reading"]_vars

VadFailureSkipsFrameSeen ==
    /\ lastIter.kind = "vadErr"
    /\ inSpeech
    /\ (silenceStreak + 1) * frameDuration >= SilenceThresholdMs
    /\ Len(events) = 1
    /\ tpc = "reading"

\* C24: the leave of a connection takes away only an entry that maps to that
\* connection: an entry that maps to another connection, such as the one of
\* a later join under the same id, is the same after the leave.
LeaveOnlyOwnEntry ==
    [][\A c \in Conns : LeaveStep(c) =>
          \A id \in DOMAIN peers : peers[id] # c =>
              id \in DOMAIN peers' /\ peers'[id] = peers[id]]_vars

\* C25: a connection is the value of at most one entry of the directory.
OneEntryPerConnection ==
    \A c \in Conns : Cardinality({id \in DOMAIN peers : peers[id] = c}) <= 1

\* C26: no two loops are inside WriteJSON on the same target connection at
\* the same time.
OneWriterPerTarget ==
    \A c \in Conns, d \in Conns :
        (c # d /\ pc[c] = "write" /\ pc[d] = "write") => target[c] # target[d]

\* The WriteJSON of the loop of c returns an error.
WriteFailedStep(c) ==
    pc[c] = "write" /\ pc'[c] # "write" /\ sent'[c].type = "signal"

\* C27: a relay write that returns an error changes nothing but the log: the
\* sender's loop is at its next read, nothing is written to the sender or to
\* anyone else, no loop ends, and the directory keeps every entry, the
\* target's included.
WriteFailureOnlyLogged ==
    [][\A c \in Conns : WriteFailedStep(c) =>
          /\ pc'[c] = "read"
          /\ \A d \in Conns \ {c} : pc'[d] = pc[d]
          /\ received' = received
          /\ peers' = peers
          /\ peerID' = peerID
          /\ exitBy' = exitBy
          /\ crashed' = crashed]_vars

WriteFailureOnlyLoggedSeen ==
    /\ pc["c2"] = "read" /\ sent["c2"].type = "signal" /\ sent["c2"].to = "A"
    /\ "A" \in DOMAIN peers /\ peers["A"] = "c1"
    /\ pc["c1"] = "closed"
    /\ pc["c3"] = "write" /\ target["c3"] = "c1"
    /\ received = [c \in Conns |-> <<>>]

\* C21: once a read on the track has failed, its loop is over for good: no
\* further packet is read, no stage is called, the segmentation state stays
\* as it was, no event is logged, and the loop is not entered again.
ReadFailureEndsLoop ==
    [][tpc = "stopped" =>
          /\ tpc' = "stopped"
          /\ frameNo' = frameNo
          /\ lastIter' = lastIter
          /\ inSpeech' = inSpeech /\ silenceStreak' = silenceStreak
          /\ events' = events]_vars

ReadFailureEndsLoopSeen ==
    /\ tpc = "stopped"
    /\ inSpeech /\ silenceStreak = 3
    /\ frameNo < MaxFrames

\* The number of events of kind k among those logged.
NumEvents(k) == Cardinality({i \in 1..Len(events) : events[i].kind = k})

\* C22: the loop takes the packets one at a time in the order ReadRTP
\* returns them: an iteration reads exactly the next packet and finishes
\* with it before the following read; a packet that decodes and classifies
\* goes through all three stages and its decision moves the silence run (0
\* on speech, one more on non-speech), so that the run is that of the
\* decisions in arrival order; an event carries the number of the packet in
\* hand; only a packet that fails to decode or classify misses the
\* segmentation.
InOrderOneAtATime ==
    /\ [][frameNo' # frameNo =>
            /\ tpc = "reading" /\ tpc' = "reading"
            /\ frameNo' = frameNo + 1
            /\ lastIter'.kind \in {"speech", "nonspeech", "decodeErr", "vadErr"}
            /\ ("segmentation" \in lastIter'.invoked)
                  <=> (lastIter'.kind \in {"speech", "nonspeech"})
            /\ lastIter'.kind = "speech" => silenceStreak' = 0
            /\ lastIter'.kind = "nonspeech" => silenceStreak' = silenceStreak + 1
            /\ events' # events =>
                  /\ Len(events') = Len(events) + 1
                  /\ Last(events').frame = frameNo']_vars
    /\ [](silenceStreak = nonSpeechRun)
    /\ [](\A i \in 1..Len(events) - 1 : events[i].frame < events[i + 1].frame)

InOrderOneAtATimeSeen ==
    /\ frameNo = 14
    /\ lastIter.kind = "nonspeech"
    /\ silenceStreak = 10
    /\ events = <<Started(2), Ended(14)>>

\* C23: after a frame classified as speech the machine is Speaking with a
\* silence run of 0, and "Speech started" is logged on that very frame
\* exactly when the machine was in Silence before it; in Silence a
\* non-speech frame logs nothing, however long the silence run has become.
SpeechFrameEffect ==
    /\ [][IterOf("speech") =>
            /\ inSpeech' /\ silenceStreak' = 0
            /\ IF inSpeech THEN events' = events
               ELSE events' = Append(events, Started(frameNo'))]_vars
    /\ [][(IterOf("nonspeech") /\ ~inSpeech) =>
            events' = events /\ ~inSpeech']_vars

SpeechFrameEffectSeen ==
    /\ lastIter.kind = "nonspeech"
    /\ ~inSpeech
    /\ silenceStreak * frameDuration > 2 * SilenceThresholdMs
    /\ events = <<Started(1), Ended(11)>>

\* C30: the "Speech started" lines logged so far outnumber the "Speech ended"
\* lines by one while inSpeech is true and by none while it is false; a read
\* failure while Speaking ends the loop with the utterance left open, no
\* "Speech ended" being logged for it.
OpenUtterancesMatchState ==
    /\ [](NumEvents("SpeechStarted") - NumEvents("SpeechEnded")
             = IF inSpeech THEN 1 ELSE 0)
    /\ [][(tpc = "reading" /\ tpc' = "stopped") =>
            events' = events /\ inSpeech' = inSpeech]_vars

OpenUtterancesMatchStateSeen ==
    /\ tpc = "stopped"
    /\ inSpeech
    /\ Len(events) = 3
    /\ Last(events).kind = "SpeechStarted"

(***************************************************************************)
(* Properties of the negotiator (checked under PeerSpec)                   *)
(***************************************************************************)
\* The object ReadJSON returned last, as the relay delivered it.
Handled == delivered[Len(delivered) - Len(inbox)]
\* The positions of outbox holding an answer, a candidate.
AnswersSent == {i \in 1..Len(outbox) : outbox[i].sdp # Absent}
CandidatesSent(c) == {i \in 1..Len(outbox) : outbox[i].candidate = c}
\* The number of offers among the objects of q that SetRemoteDescription accepts.
RECURSIVE ApplyingOffers(_)
ApplyingOffers(q) ==
    IF q = <<>> THEN 0
    ELSE ApplyingOffers(Tail(q))
         + (IF Head(q).type = "signal" /\ Applies(Head(q).sdp) THEN 1 ELSE 0)

\* C12: for an offer from F that applies, the answer is written only by the
\* step that follows SetRemoteDescription and SetLocalDescription on the
\* session created for it, it is the object {type: signal, to: F, from: the
\* peer's own id, data: {sdp: the answer}}, and once written it is the one
\* answer on the socket.
AnswerAfterNegotiation ==
    [][/\ (outbox' # outbox /\ Last(outbox').sdp # Absent) =>
            /\ AnswersSent = {}
            /\ sessions = 1 /\ remoteSet /\ localSet
            /\ Applies(Handled.sdp)
            /\ Last(outbox').type = "signal"
            /\ Last(outbox').from = ownPeerID
            /\ Last(outbox').sdp = AnswerSDP
            /\ Last(outbox').candidate = Absent
            /\ Handled.from # Absent => Last(outbox').to = Handled.from
       /\ ppc' \in {"onICE", "blocked"} => Cardinality(AnswersSent') = 1]_vars

AnswerAfterNegotiationSeen ==
    /\ ppc = "blocked"
    /\ Handled = OfferWire(Initiator, "offer-ok")
    /\ outbox[2] = PWire("signal", Initiator, ownPeerID, Absent, AnswerSDP, Absent)
    /\ Len(outbox) = 4

\* C13: of the objects the peer has received, each offer that applies has
\* its session: with the negotiator at its final position, the number of
\* sessions created is the number of such offers received.
SessionPerOffer ==
    ppc = "blocked" => sessions = ApplyingOffers(delivered)

\* C14: a remote candidate received after an offer is read and handled for
\* that offer's session: none stays unread behind a negotiator that has
\* reached its final position.
CandidateConsumed ==
    ppc = "blocked" => \A i \in 1..Len(inbox) : inbox[i].candidate = Absent

\* The offer handled was passed to SetRemoteDescription, which refused it.
Rejected == applyCalls > 0 /\ ~Applies(msg.Data.sdp)

\* C15: an offer that SetRemoteDescription refuses gets no answer and no
\* candidate envelope, its session goes no further (no local description,
\* no candidate handler), and SetRemoteDescription is not called again.
RejectedOfferSendsNothing ==
    Rejected =>
        /\ \A i \in 1..Len(outbox) : outbox[i].type # "signal"
        /\ ~remoteSet /\ ~localSet /\ ~onICE
        /\ discovered = {}
        /\ applyCalls = 1

RejectedOfferSendsNothingSeen ==
    /\ Rejected
    /\ Handled = OfferWire(Initiator, "offer-bad")
    /\ Len(delivered) = MaxDeliver
    /\ outbox = <<PWire("join", Absent, Absent, ownPeerID, Absent, Absent)>>

\* C16: an offer that does not apply, or a signal without a string sdp, ends
\* that negotiation only: the process does not end on it, so the peer stays
\* joined and reads what comes next.
ProtocolErrorLocalized ==
    exitWhy \notin {"offer", "panic"}

\* C17: every local candidate found for the session is written exactly once,
\* as {type: signal, to: the offer's from, from: the peer's own id, data:
\* {candidate: c}}, once no handler call is due, whenever it was found.
CandidatesRelayedOnce ==
    (ppc = "blocked" /\ cbq = <<>>) =>
        \A c \in discovered :
            /\ Cardinality(CandidatesSent(c)) = 1
            /\ \A i \in CandidatesSent(c) :
                  /\ outbox[i].type = "signal" /\ outbox[i].from = ownPeerID
                  /\ Handled.from # Absent => outbox[i].to = Handled.from

\* C28: every answer and every candidate envelope the peer writes has a to,
\* whatever offer it answers, one without a from included.
RepliesAddressed ==
    \A i \in 1..Len(outbox) : outbox[i].type = "signal" => outbox[i].to # Absent

\* C29: a candidate envelope is written only once the write of the session's
\* answer has returned: the main goroutine is past it when a candidate is
\* written, and every candidate on the socket has the answer before it.
CandidatesFollowAnswer ==
    /\ [][(outbox' # outbox /\ Last(outbox').candidate # Absent) =>
            /\ ppc \notin {"setLocal", "sendAnswer"}
            /\ AnswersSent # {}]_vars
    /\ [](\A i \in 1..Len(outbox) : outbox[i].candidate # Absent =>
              \E j \in AnswersSent : j < i)

CandidatesFollowAnswerSeen ==
    /\ Len(outbox) = 3
    /\ outbox[2].sdp = AnswerSDP
    /\ outbox[3].candidate = "k2"
    /\ missed = {"k1"}

(***************************************************************************)
(* Properties of the tracks of one session (checked under SessionSpec)     *)
(***************************************************************************)
\* C20: the segmentation state a track's loop works on is its own: between
\* two of its iterations the events the track has logged are those its own
\* frames alone produce, whatever the frames of the other track.
TrackStateOwned ==
    \A t \in Tracks : spos[t] = "reading" => tevents[t] = ownEvents[t]

====
